---- MODULE Spec2Model ----
(***************************************************************************)
(* A model of the user-administration CLI of app/cli.py: eight commands    *)
(* over one table of User rows.  Every command is one action; it opens a   *)
(* session, issues its query or mutation, commits or rolls back, and       *)
(* prints.  Strings are sequences of one-character strings, so that        *)
(* case folding and LIKE pattern matching are computed, not assumed.       *)
(***************************************************************************)
EXTENDS Integers, Sequences, FiniteSets, TLC

\* ---------------------------------------------------------------- bounds
\* Largest id the storage hands out before create_user stops succeeding.
MaxId == 3

\* ---------------------------------------------------------------- strings
bob       == <<"b", "o", "b">>
BOB       == <<"B", "O", "B">>
alice     == <<"a", "l", "i", "c", "e">>
bob_mail  == <<"b", "o", "b", "@", "m", "a", "i", "l", ".", "c", "o", "m">>
a_x_com   == <<"a", "@", "x", ".", "c", "o", "m">>
A_X_COM   == <<"A", "@", "X", ".", "C", "O", "M">>
empty     == << >>

Usernames == {bob, BOB, alice}
Emails    == {bob_mail, a_x_com, A_X_COM}
Passwords == {"pw"}
Queries   == {empty, <<"b", "o">>, <<"O", "B">>, <<"@", "x">>, <<"z">>,
              <<"_">>, <<"%">>}
Limits    == -1 .. 2
Offsets   == -1 .. 1

\* ASCII case folding, as ILIKE applies it to both operands.
UpperToLower ==
  [c \in {"A", "B", "C", "D", "E", "F", "G", "H", "I", "J", "K", "L", "M",
          "N", "O", "P", "Q", "R", "S", "T", "U", "V", "W", "X", "Y", "Z"} |->
     CASE c = "A" -> "a" [] c = "B" -> "b" [] c = "C" -> "c" [] c = "D" -> "d"
       [] c = "E" -> "e" [] c = "F" -> "f" [] c = "G" -> "g" [] c = "H" -> "h"
       [] c = "I" -> "i" [] c = "J" -> "j" [] c = "K" -> "k" [] c = "L" -> "l"
       [] c = "M" -> "m" [] c = "N" -> "n" [] c = "O" -> "o" [] c = "P" -> "p"
       [] c = "Q" -> "q" [] c = "R" -> "r" [] c = "S" -> "s" [] c = "T" -> "t"
       [] c = "U" -> "u" [] c = "V" -> "v" [] c = "W" -> "w" [] c = "X" -> "x"
       [] c = "Y" -> "y" [] c = "Z" -> "z"]

LowerChar(c) == IF c \in DOMAIN UpperToLower THEN UpperToLower[c] ELSE c

Lower(s) == [i \in 1 .. Len(s) |-> LowerChar(s[i])]

\* SQL LIKE: % matches any run of characters, _ matches exactly one.
RECURSIVE Like(_, _)
Like(s, p) ==
  IF p = << >> THEN s = << >>
  ELSE IF Head(p) = "%"
       THEN Like(s, Tail(p)) \/ (s # << >> /\ Like(Tail(s), p))
       ELSE /\ s # << >>
            /\ (Head(p) = "_" \/ Head(p) = Head(s))
            /\ Like(Tail(s), Tail(p))

\* column.ilike(pattern): LIKE on the case-folded operands.
ilike(s, p) == Like(Lower(s), Lower(p))

\* f"%{query}%"
Pattern(query) == <<"%">> \o query \o <<"%">>

\* ---------------------------------------------------------------- state
VARIABLES
  users,     \* the user table: its rows in the storage's default order
  nextId,    \* the id the table's sequence hands to the next inserted row
  result,    \* how the last command ended
  out,       \* the rows the last command printed
  last,      \* the last command and its arguments
  created,   \* the command before it, when that was a create_user that
             \* inserted its row (NoCmd otherwise)
  scenario   \* how far the commands so far follow the end-to-end scenario

vars == <<users, nextId, result, out, last, created, scenario>>

\* ---------------------------------------------------------------- storage
\* User(username, email, password): a row not yet inserted, its id unset.
User(username, email, password) ==
  [username |-> username, email |-> email, password |-> password]

\* drop_all() then create_db_and_tables(): an empty table, its sequence new.
drop_all == [rows |-> << >>, seq |-> 1]

create_db_and_tables(db) == db

\* db.add(newuser) as the INSERT the commit flushes: the storage sets the id.
Insert(rows, id, newuser) ==
  Append(rows, [id |-> id, username |-> newuser.username,
                email |-> newuser.email, password |-> newuser.password])

\* The table with the unique constraint on email left out.
IntegrityError_username_only(rows) ==
  \E i, j \in DOMAIN rows : i # j /\ rows[i].username = rows[j].username

\* The unique constraints on username and email reject the flushed rows.
IntegrityError(rows) ==
  \E i, j \in DOMAIN rows :
    /\ i # j
    /\ (rows[i].username = rows[j].username \/ rows[i].email = rows[j].email)

\* select(User).where(User.username == username), in storage order.
ByUsername(rows, username) ==
  SelectSeq(rows, LAMBDA r : r.username = username)

\* The position in the table of the row a query returned.
IndexOf(rows, row) == CHOOSE i \in DOMAIN rows : rows[i] = row

\* db.delete(user)
Delete(rows, row) == SelectSeq(rows, LAMBDA r : r # row)

\* .offset(offset).limit(limit) for non-negative arguments.
OffsetLimit(rows, limit, offset) ==
  SubSeq(rows, offset + 1,
         IF offset + limit < Len(rows) THEN offset + limit ELSE Len(rows))

\* ---------------------------------------------------------------- history
Cmd(name, username, email, password, query, limit, offset) ==
  [cmd |-> name, username |-> username, email |-> email,
   password |-> password, query |-> query, limit |-> limit, offset |-> offset]

NoCmd == Cmd("none", empty, empty, "", empty, 0, 0)

Log(c) ==
  /\ last' = c
  /\ created' = IF last.cmd = "create_user" /\ result = "ok" THEN last ELSE NoCmd

\* A command that only reads: storage and the scenario stay as they are.
ReadOnly == UNCHANGED <<users, nextId, scenario>>

Init ==
  /\ users = << >>
  /\ nextId = 1
  /\ result = "none"
  /\ out = << >>
  /\ last = NoCmd
  /\ created = NoCmd
  /\ scenario = "none"

\* ---------------------------------------------------------------- commands
\* initialize without drop_all(): bob is added to the table as it stands, and
\* the commit fails when bob or his email is already there.
initialize_no_drop ==
  LET bobUser == User(bob, bob_mail, "bobpass")
      pending == Insert(users, nextId, bobUser)
  IN /\ IF IntegrityError(pending)
        THEN /\ result' = "raised"
             /\ UNCHANGED <<users, nextId>>
        ELSE /\ nextId <= MaxId
             /\ result' = "ok"
             /\ users' = pending
             /\ nextId' = nextId + 1
     /\ out' = << >>
     /\ scenario' = IF last.cmd = "initialize" THEN "init_init" ELSE "init"
     /\ Log(Cmd("initialize", empty, empty, "", empty, 0, 0))

initialize ==
  LET db      == create_db_and_tables(drop_all)
      bobUser == User(bob, bob_mail, "bobpass")
      rows    == Insert(db.rows, db.seq, bobUser)
  IN /\ users' = rows
     /\ nextId' = db.seq + 1
     /\ result' = "ok"
     /\ out' = << >>
     /\ scenario' = IF last.cmd = "initialize" THEN "init_init" ELSE "init"
     /\ Log(Cmd("initialize", empty, empty, "", empty, 0, 0))

get_user(username) ==
  LET found == ByUsername(users, username)
  IN /\ IF found = << >>
        THEN result' = "not_found" /\ out' = << >>
        ELSE result' = "ok" /\ out' = <<Head(found)>>
     /\ ReadOnly
     /\ Log(Cmd("get_user", username, empty, "", empty, 0, 0))

get_all_users ==
  /\ IF users = << >>
     THEN result' = "empty" /\ out' = << >>
     ELSE result' = "ok" /\ out' = users
  /\ ReadOnly
  /\ Log(Cmd("get_all_users", empty, empty, "", empty, 0, 0))

\* change_email without the return of its not-found branch: the assignment
\* to the missing user raises.
change_email_no_return(username, new_email) ==
  LET found == ByUsername(users, username)
  IN /\ IF found = << >>
        THEN /\ result' = "raised"
             /\ users' = users
        ELSE LET i       == IndexOf(users, Head(found))
                 pending == [users EXCEPT ![i].email = new_email]
             IN IF IntegrityError(pending)
                THEN /\ result' = "raised"
                     /\ users' = users
                ELSE /\ result' = "ok"
                     /\ users' = pending
     /\ out' = << >>
     /\ scenario' = "none"
     /\ UNCHANGED nextId
     /\ Log(Cmd("change_email", username, new_email, "", empty, 0, 0))

\* change_email catching the IntegrityError as create_user does.
change_email_catches(username, new_email) ==
  LET found == ByUsername(users, username)
  IN /\ IF found = << >>
        THEN /\ result' = "not_found"
             /\ users' = users
        ELSE LET i       == IndexOf(users, Head(found))
                 pending == [users EXCEPT ![i].email = new_email]
             IN IF IntegrityError(pending)
                THEN /\ result' = "conflict"
                     /\ users' = users
                ELSE /\ result' = "ok"
                     /\ users' = pending
     /\ out' = << >>
     /\ scenario' = "none"
     /\ UNCHANGED nextId
     /\ Log(Cmd("change_email", username, new_email, "", empty, 0, 0))

\* change_email written as delete-and-insert: the user gets a new row.
change_email_reinsert(username, new_email) ==
  LET found == ByUsername(users, username)
  IN /\ IF found = << >>
        THEN /\ result' = "not_found"
             /\ UNCHANGED <<users, nextId>>
        ELSE LET old     == Head(found)
                 pending == Insert(Delete(users, old), nextId,
                                   User(username, new_email, old.password))
             IN IF IntegrityError(pending)
                THEN /\ result' = "raised"
                     /\ UNCHANGED <<users, nextId>>
                ELSE /\ nextId <= MaxId
                     /\ result' = "ok"
                     /\ users' = pending
                     /\ nextId' = nextId + 1
     /\ out' = << >>
     /\ scenario' = "none"
     /\ Log(Cmd("change_email", username, new_email, "", empty, 0, 0))

change_email(username, new_email) ==
  LET found == ByUsername(users, username)
  IN /\ IF found = << >>
        THEN /\ result' = "not_found"
             /\ users' = users
        ELSE LET i       == IndexOf(users, Head(found))
                 pending == [users EXCEPT ![i].email = new_email]
             IN IF IntegrityError(pending)
                THEN /\ result' = "raised"
                     /\ users' = users
                ELSE /\ result' = "ok"
                     /\ users' = pending
     /\ out' = << >>
     /\ scenario' = "none"
     /\ UNCHANGED nextId
     /\ Log(Cmd("change_email", username, new_email, "", empty, 0, 0))

\* create_user without its except clause: the IntegrityError propagates.
create_user_no_except(username, email, password) ==
  LET newuser == User(username, email, password)
      pending == Insert(users, nextId, newuser)
  IN /\ IF IntegrityError(pending)
        THEN /\ result' = "raised"
             /\ out' = << >>
             /\ UNCHANGED <<users, nextId>>
        ELSE /\ nextId <= MaxId
             /\ result' = "ok"
             /\ out' = <<pending[Len(pending)]>>
             /\ users' = pending
             /\ nextId' = nextId + 1
     /\ scenario' = IF /\ scenario \in {"init", "init_init"}
                       /\ username = alice /\ email = a_x_com /\ password = "pw"
                    THEN "init_alice" ELSE "none"
     /\ Log(Cmd("create_user", username, email, password, empty, 0, 0))

\* create_user building the user with username and email swapped.
create_user_swapped(username, email, password) ==
  LET newuser == User(email, username, password)
      pending == Insert(users, nextId, newuser)
  IN /\ IF IntegrityError(pending)
        THEN /\ result' = "conflict"
             /\ out' = << >>
             /\ UNCHANGED <<users, nextId>>
        ELSE /\ nextId <= MaxId
             /\ result' = "ok"
             /\ out' = <<pending[Len(pending)]>>
             /\ users' = pending
             /\ nextId' = nextId + 1
     /\ scenario' = IF /\ scenario \in {"init", "init_init"}
                       /\ username = alice /\ email = a_x_com /\ password = "pw"
                    THEN "init_alice" ELSE "none"
     /\ Log(Cmd("create_user", username, email, password, empty, 0, 0))

create_user(username, email, password) ==
  LET newuser == User(username, email, password)
      pending == Insert(users, nextId, newuser)
  IN /\ IF IntegrityError(pending)
        THEN /\ result' = "conflict"
             /\ out' = << >>
             /\ UNCHANGED <<users, nextId>>
        ELSE /\ nextId <= MaxId
             /\ result' = "ok"
             /\ out' = <<pending[Len(pending)]>>
             /\ users' = pending
             /\ nextId' = nextId + 1
     /\ scenario' = IF /\ scenario \in {"init", "init_init"}
                       /\ username = alice /\ email = a_x_com /\ password = "pw"
                    THEN "init_alice" ELSE "none"
     /\ Log(Cmd("create_user", username, email, password, empty, 0, 0))

\* delete_user with the where clause lost: the first row of the table goes.
delete_user_first(username) ==
  LET found == ByUsername(users, username)
  IN /\ IF found = << >>
        THEN /\ result' = "not_found"
             /\ users' = users
        ELSE /\ result' = "ok"
             /\ users' = Delete(users, Head(users))
     /\ out' = << >>
     /\ scenario' = IF scenario = "init_alice" /\ username = bob
                    THEN "init_alice_delbob" ELSE "none"
     /\ UNCHANGED nextId
     /\ Log(Cmd("delete_user", username, empty, "", empty, 0, 0))

delete_user(username) ==
  LET found == ByUsername(users, username)
  IN /\ IF found = << >>
        THEN /\ result' = "not_found"
             /\ users' = users
        ELSE /\ result' = "ok"
             /\ users' = Delete(users, Head(found))
     /\ out' = << >>
     /\ scenario' = IF scenario = "init_alice" /\ username = bob
                    THEN "init_alice_delbob" ELSE "none"
     /\ UNCHANGED nextId
     /\ Log(Cmd("delete_user", username, empty, "", empty, 0, 0))

find_user(query) ==
  LET pattern == Pattern(query)
      found   == SelectSeq(users, LAMBDA r : \/ ilike(r.username, pattern)
                                            \/ ilike(r.email, pattern))
  IN /\ out' = found
     /\ result' = IF found = << >> THEN "no_match" ELSE "ok"
     /\ ReadOnly
     /\ Log(Cmd("find_user", empty, empty, "", query, 0, 0))

\* list_users with the two arguments passed the wrong way round.
list_users_swapped(limit, offset) ==
  /\ IF limit >= 0 /\ offset >= 0
     THEN /\ out' = OffsetLimit(users, offset, limit)
          /\ result' = "ok"
     ELSE \/ /\ out' = OffsetLimit(users,
                                   IF offset < 0 THEN Len(users) ELSE offset,
                                   IF limit < 0 THEN 0 ELSE limit)
             /\ result' = "ok"
          \/ /\ out' = << >>
             /\ result' = "raised"
  /\ ReadOnly
  /\ Log(Cmd("list_users", empty, empty, "", empty, limit, offset))

\* A negative LIMIT or OFFSET is the storage engine's to interpret: one engine
\* reads a negative LIMIT as no limit and a negative OFFSET as zero, another
\* rejects the statement.
list_users(limit, offset) ==
  /\ IF limit >= 0 /\ offset >= 0
     THEN /\ out' = OffsetLimit(users, limit, offset)
          /\ result' = "ok"
     ELSE \/ /\ out' = OffsetLimit(users,
                                   IF limit < 0 THEN Len(users) ELSE limit,
                                   IF offset < 0 THEN 0 ELSE offset)
             /\ result' = "ok"
          \/ /\ out' = << >>
             /\ result' = "raised"
  /\ ReadOnly
  /\ Log(Cmd("list_users", empty, empty, "", empty, limit, offset))

Next ==
  \/ initialize
  \/ \E u \in Usernames : get_user(u)
  \/ get_all_users
  \/ \E u \in Usernames, e \in Emails : change_email(u, e)
  \/ \E u \in Usernames, e \in Emails, p \in Passwords : create_user(u, e, p)
  \/ \E u \in Usernames : delete_user(u)
  \/ \E q \in Queries : find_user(q)
  \/ \E l \in Limits, o \in Offsets : list_users(l, o)

Spec == Init /\ [][Next]_vars

\* ---------------------------------------------------------------- properties
\* The rows of the table holding a given username / email.
Holding(rows, username) == {i \in DOMAIN rows : rows[i].username = username}

WithEmail(rows, email) == {i \in DOMAIN rows : rows[i].email = email}

\* q occurs in s as a run of consecutive characters, letter case ignored.
Contains(s, q) ==
  \E k \in 0 .. Len(s) - Len(q) :
    \A n \in 1 .. Len(q) : LowerChar(s[k + n]) = LowerChar(q[n])

BobRow ==
  [id |-> 1, username |-> bob, email |-> bob_mail, password |-> "bobpass"]

AliceRow ==
  [id |-> 2, username |-> alice, email |-> a_x_com, password |-> "pw"]

\* C1: the stored user set never holds two distinct users with the same
\* username, nor two distinct users with the same email.
C1_UniqueUsernameAndEmail ==
  \A i, j \in DOMAIN users :
    i # j => /\ users[i].username # users[j].username
             /\ users[i].email # users[j].email

\* A full table on which a write was just refused for a duplicate.
C1_Witness ==
  /\ Len(users) = 3
  /\ \/ last.cmd = "create_user" /\ result = "conflict"
     \/ last.cmd = "change_email" /\ result = "raised"

\* C2: create_user with a username or an email that a stored user already
\* has leaves the table exactly as it was, reports the conflict and returns
\* normally.
C2_CreateConflictLeavesStorage ==
  [][(/\ last'.cmd = "create_user"
      /\ \/ Holding(users, last'.username) # {}
         \/ WithEmail(users, last'.email) # {})
     => /\ users' = users
        /\ nextId' = nextId
        /\ result' = "conflict"]_vars

\* create_user was refused for its username alone, its email being new.
C2_Witness ==
  /\ last.cmd = "create_user"
  /\ result = "conflict"
  /\ Holding(users, last.username) # {}
  /\ WithEmail(users, last.email) = {}
  /\ Len(users) >= 2

\* C3: after initialize the table holds exactly the seed user bob, whatever
\* it held before; a second initialize right after the first leaves that same
\* state.
C3_InitializeResets ==
  last.cmd = "initialize" => /\ users = <<BobRow>>
                             /\ nextId = BobRow.id + 1
                             /\ result = "ok"

\* initialize ran twice in succession.
C3_Witness ==
  /\ scenario = "init_init"
  /\ last.cmd = "initialize"
  /\ users = <<BobRow>>

\* What get_user must print for the user a create_user call described.
PrintsCreated(printed, c) ==
  /\ Len(printed) = 1
  /\ printed[1].username = c.username
  /\ printed[1].email = c.email
  /\ printed[1].id \in 1 .. MaxId

\* C4 as claimed: get_user(u) issued after any create_user(u, e, p) returns
\* a user with username u, email e and an id.
C4_GetAfterAnyCreate ==
  [][(/\ last.cmd = "create_user"
      /\ last'.cmd = "get_user"
      /\ last'.username = last.username)
     => /\ result' = "ok"
        /\ PrintsCreated(out', last)]_vars

\* C4 as amended: get_user(u) issued after a create_user(u, e, p) that
\* inserted its row (no uniqueness conflict) returns a user with username u,
\* email e and a storage-assigned id.
C4_GetAfterCreate ==
  [][(/\ last.cmd = "create_user"
      /\ result = "ok"
      /\ last'.cmd = "get_user"
      /\ last'.username = last.username)
     => /\ result' = "ok"
        /\ PrintsCreated(out', last)]_vars

\* get_user(u) ran right after a create_user(u, e, p) that inserted its row.
C4_Witness ==
  /\ last.cmd = "get_user"
  /\ created.cmd = "create_user"
  /\ created.username = last.username
  /\ result = "ok"
  /\ Len(users) >= 2

\* C5: change_email for a username no stored user has changes nothing in
\* storage, reports not-found and returns normally.
C5_ChangeEmailAbsent ==
  [][(/\ last'.cmd = "change_email"
      /\ Holding(users, last'.username) = {})
     => /\ users' = users
        /\ nextId' = nextId
        /\ result' = "not_found"]_vars

\* change_email missed its user in a table that is not empty.
C5_Witness ==
  /\ last.cmd = "change_email"
  /\ result = "not_found"
  /\ Holding(users, last.username) = {}
  /\ Len(users) >= 2

\* C6: find_user(q) returns exactly the users whose username or email
\* contains q, letter case ignored, each once.
C6_FindUserIsSubstringSearch ==
  last.cmd = "find_user" =>
    out = SelectSeq(users, LAMBDA r : \/ Contains(r.username, last.query)
                                      \/ Contains(r.email, last.query))

\* The rows list_users must print: those after the first offset rows, limit
\* of them at most.
Page(rows, printed, limit, offset) ==
  /\ Len(printed) <= limit
  /\ Len(printed) = IF Len(rows) - offset < limit
                    THEN (IF Len(rows) < offset THEN 0 ELSE Len(rows) - offset)
                    ELSE limit
  /\ \A k \in 1 .. Len(printed) : printed[k] = rows[offset + k]

\* C7 as claimed: for every integer limit and offset, list_users returns at
\* most limit rows, those after the first offset rows.
C7_ListUsersAnyInteger ==
  last.cmd = "list_users" =>
    /\ Len(out) <= last.limit
    /\ (last.limit >= 0 /\ last.offset >= 0
          => Page(users, out, last.limit, last.offset))

\* C7 as amended: for limit >= 0 and offset >= 0, list_users returns at most
\* limit rows, those after the first offset rows; list_users(0, 0) returns
\* nothing.
C7_ListUsersPage ==
  (last.cmd = "list_users" /\ last.limit >= 0 /\ last.offset >= 0) =>
    /\ result = "ok"
    /\ Page(users, out, last.limit, last.offset)
    /\ (last.limit = 0 => out = << >>)

\* A page that starts after the first row and is cut by the limit.
C7_Witness ==
  /\ last.cmd = "list_users"
  /\ last.limit = 1
  /\ last.offset = 1
  /\ Len(users) = 3
  /\ out = <<users[2]>>

\* In one step: an id held by a stored user is not held by another user, and
\* a user that stays stored keeps its id.
IdsKept ==
  \A i \in DOMAIN users, j \in DOMAIN users' :
    (users[i].id = users'[j].id) <=> (users[i].username = users'[j].username)

C9_DeleteRemovesOnlyTarget ==
  [][/\ last'.cmd = "delete_user" =>
          /\ users' = SelectSeq(users, LAMBDA r : r.username # last'.username)
          /\ result' = IF Holding(users, last'.username) = {}
                       THEN "not_found" ELSE "ok"
     /\ scenario' = "init_alice" => users' = <<BobRow, AliceRow>>
     /\ scenario' = "init_alice_delbob" => users' = <<AliceRow>>
     /\ last'.cmd = "get_all_users" => out' = users']_vars

\* The end-to-end scenario ran and get_all_users printed alice alone.
C9_Witness ==
  /\ scenario = "init_alice_delbob"
  /\ last.cmd = "get_all_users"
  /\ out = <<AliceRow>>

\* C10: change_email(u, e) for a stored u and an e that a different user has
\* fails with the uniqueness violation and leaves every row as it was.
C10_ChangeEmailDuplicateAtomic ==
  [][(/\ last'.cmd = "change_email"
      /\ Holding(users, last'.username) # {}
      /\ \E i \in WithEmail(users, last'.email) :
           users[i].username # last'.username)
     => /\ users' = users
        /\ nextId' = nextId
        /\ result' = "raised"]_vars

\* change_email was refused for an email another user has.
C10_Witness ==
  /\ last.cmd = "change_email"
  /\ result = "raised"
  /\ Holding(users, last.username) # {}
  /\ \E i \in WithEmail(users, last.email) : users[i].username # last.username

====
